---------------------------- MODULE Spec2Model ----------------------------
(***************************************************************************)
(* A model of mplcursors/_pick_info.py: the pick dispatcher compute_pick   *)
(* (default, Line2D, PathCollection, AxesImage/Patch, Text), the           *)
(* fractional-index codec Index, the selection mover move (default,        *)
(* Line2D, AxesImage) and the annotation text get_ann_text.                *)
(*                                                                         *)
(* Numbers.  The code works in doubles.  The model keeps to the inputs on  *)
(* which the code's double arithmetic is exact, and computes there with    *)
(* integers and ratios of integers: screen positions are integer pixels    *)
(* and every segment that compute_pick projects on is parallel to a screen *)
(* axis, so that its length ds is an integer, its unit vector us = u / ds  *)
(* is (+-1, 0) or (0, +-1), and dot, projs, d2s and dot / ds are dyadic    *)
(* numbers the doubles hold exactly.  On an oblique segment us is rounded  *)
(* and the code's distance and offset are within rounding of the exact     *)
(* ones (a click on the midpoint of (0,0)-(2,2) gives d2 = 9.9e-32 and     *)
(* offset 0.49999999999999994): such lines are outside the model.          *)
(* A rational is a numerator with a positive denominator and two rationals *)
(* are compared by cross multiplication.  Selection.dist is sqrt(d2); the  *)
(* model keeps d2 (the squared distance, field dist2) and compares         *)
(* dist < r as d2 < r*r.  NaN is a flag (field nan) on a point or on a     *)
(* distance.                                                               *)
(***************************************************************************)
EXTENDS Integers, Sequences, FiniteSets

VARIABLES artist, event, sel, raised, warned, hist, enc, text

vars == <<artist, event, sel, raised, warned, hist, enc, text>>

---------------------------------------------------------------------------
(* Bounds of the model.                                                    *)

\* Longest point sequence of a line in the pick specification.
MaxPts == 3
\* Longest series in the move and codec specifications.
MaxSeries == 4
\* Most move calls after one pick.
MaxMoves == 2
\* Offsets handed to the codec are f / FracDen, f in 0..FracDen.
FracDen == 4
\* Largest image: MaxRows x MaxCols cells.
MaxRows == 2
MaxCols == 3
\* Most offsets and most paths of a PathCollection.
MaxOffsets == 2
MaxPaths == 2

---------------------------------------------------------------------------
(* Arithmetic helpers.                                                     *)

Sq(a) == a * a

Abs(a) == IF a < 0 THEN -a ELSE a

\* ndarray.astype(int): truncation toward zero of a / b, b # 0.
Trunc(a, b) ==
    IF (a >= 0) = (b > 0) THEN Abs(a) \div Abs(b) ELSE -(Abs(a) \div Abs(b))

\* np.clip(v, lo, hi)
Clip(v, lo, hi) == IF v < lo THEN lo ELSE IF v > hi THEN hi ELSE v

\* Rationals [n, d] with d > 0.
RatLT(a, b) == a.n * b.d < b.n * a.d

RatEQ(a, b) == a.n * b.d = b.n * a.d

\* np.nanargmin(d2s) on a sequence of rationals with a nan flag: the FIRST
\* position of the least non-NaN value (1-based here, 0-based in the code).
\* The code raises ValueError when there is none (empty or all-NaN).
HasFinite(d2s) == \E i \in 1..Len(d2s) : ~d2s[i].nan

nanargmin(d2s) ==
    CHOOSE i \in 1..Len(d2s) :
        /\ ~d2s[i].nan
        /\ \A j \in 1..Len(d2s) :
              ~d2s[j].nan => /\ ~RatLT(d2s[j], d2s[i])
                             /\ (j < i => RatLT(d2s[i], d2s[j]))

---------------------------------------------------------------------------
(* Points, targets, selections.                                            *)

Pt(x, y) == [x |-> x, y |-> y, nan |-> FALSE]

NaNPt == [x |-> 0, y |-> 0, nan |-> TRUE]

\* A target in data coordinates: (xn / den, yn / den).
DataTarget(p) == [xn |-> p.x, yn |-> p.y, den |-> 1, nan |-> p.nan]

\* target.index: absent ("none"), an integer ("int": int), a float
\* ("float": int + xn / den), or an Index object ("Index": Index(int, xn / den,
\* yn / den)).  np tells a numpy scalar, as a pick stores, from a number of
\* Python's own, as int(...) in move returns: they differ in % 0.
NoIndex ==
    [kind |-> "none", int |-> 0, xn |-> 0, yn |-> 0, den |-> 1, np |-> FALSE]

\* The int of int(np.ceil(index) - 1) and int(np.floor(index) + 1).
IntIndex(i) ==
    [kind |-> "int", int |-> i, xn |-> 0, yn |-> 0, den |-> 1, np |-> FALSE]

\* The numpy integer of an argmin, or of an element of info["ind"].
Int64Index(i) ==
    [kind |-> "int", int |-> i, xn |-> 0, yn |-> 0, den |-> 1, np |-> TRUE]

\* The numpy double of x + y.
FloatIndex(i, fn, fd) ==
    [kind |-> "float", int |-> i, xn |-> fn, yn |-> 0, den |-> fd, np |-> TRUE]

Index(i, xn, yn, den) ==
    [kind |-> "Index", int |-> i, xn |-> xn, yn |-> yn, den |-> den,
     np |-> FALSE]

None == [kind |-> "None"]

Selection(target, dist2, index) ==
    [kind |-> "Selection", target |-> target, dist2 |-> dist2, index |-> index]

\* What one call does: the value returned (None when it raised), the
\* exception raised ("" when none), whether warnings.warn was called.
Returned(s) == [sel |-> s, raised |-> "", warned |-> FALSE]

Warned(s) == [sel |-> s, raised |-> "", warned |-> TRUE]

Raised(exc) == [sel |-> None, raised |-> exc, warned |-> FALSE]

\* The outcome of a call that has, besides, warned when w.
WithWarning(out, w) == [out EXCEPT !.warned = @ \/ w]

\* No text computed yet; a text is a sequence of characters.
NoText == <<"none">>

NoEvent == [kind |-> "NoEvent"]

NoEnc == [kind |-> "none"]

---------------------------------------------------------------------------
(* The fractional-index codec (class Index).  An offset frac is fn / fd.   *)

\* Index.floor
floor(idx) == idx.int

\* Index.ceil: self.int if max(self.x, self.y) == 0 else self.int + 1
ceil(idx) ==
    IF (IF idx.xn >= idx.yn THEN idx.xn ELSE idx.yn) = 0
    THEN idx.int ELSE idx.int + 1

\* Index.pre_index: even raw -> (0, frac), odd raw -> (frac, 1).
pre_index(n_pts, raw_index, fn, fd) ==
    LET i   == raw_index \div 2
        odd == raw_index % 2
    IN  IF odd = 0 THEN Index(i, 0, fn, fd) ELSE Index(i, fn, fd, fd)

\* Index.post_index: even raw -> (frac, 0), odd raw -> (1, frac).
post_index(n_pts, raw_index, fn, fd) ==
    LET i   == raw_index \div 2
        odd == raw_index % 2
    IN  IF odd = 0 THEN Index(i, fn, 0, fd) ELSE Index(i, fd, fn, fd)

\* A variant of mid_frac without the rescaling on the boundary segments.
mid_frac_Unscaled(n_pts, raw_index, fn, fd) == 2 * fn

\* The offset rescaled on the two half-length boundary segments, as a
\* numerator over 2 * fd: .5 + frac / 2 on raw segment 0, frac / 2 on raw
\* segment n_pts - 2, frac elsewhere.
mid_frac(n_pts, raw_index, fn, fd) ==
    IF raw_index = 0 THEN fd + fn
    ELSE IF raw_index = n_pts - 2 THEN fn
    ELSE 2 * fn

\* Index.mid_index.  With f2 / (2 fd) the rescaled offset: .5 is fd / (2 fd).
mid_index(n_pts, raw_index, fn, fd) ==
    LET f2   == mid_frac(n_pts, raw_index, fn, fd)
        quot == raw_index \div 2
        odd  == raw_index % 2
    IN  IF odd = 0
        THEN IF f2 < fd
             THEN Index(quot - 1, f2 + fd, 2 * fd, 2 * fd)
             ELSE Index(quot, f2 - fd, 0, 2 * fd)
        ELSE Index(quot, fd, f2, 2 * fd)

\* A variant of the direct style's encoder that drops the offset.
lines_index_NoOffset(n_pts, raw_index, fn, fd) == FloatIndex(raw_index, 0, fd)

\* The direct style's encoder, lambda _, x, y: x + y: the float raw + frac.
lines_index(n_pts, raw_index, fn, fd) == FloatIndex(raw_index, fn, fd)

---------------------------------------------------------------------------
(* The step expansions of matplotlib.cbook, which compute_pick applies to  *)
(* the data before projecting it.  A point with a NaN coordinate is NaN.   *)

Mk(x, y, nan) == IF nan THEN NaNPt ELSE Pt(x, y)

\* cbook.pts_to_prestep: (x0,y0), (x0,y1), (x1,y1), (x1,y2), ...: 2n-1 points.
pts_to_prestep(P) ==
    [j \in 1..(2 * Len(P) - 1) |->
        LET i == (j - 1) \div 2 + 1
        IN  IF (j - 1) % 2 = 0 THEN P[i]
            ELSE Mk(P[i].x, P[i + 1].y, P[i].nan \/ P[i + 1].nan)]

\* cbook.pts_to_poststep: (x0,y0), (x1,y0), (x1,y1), (x2,y1), ...: 2n-1 points.
pts_to_poststep(P) ==
    [j \in 1..(2 * Len(P) - 1) |->
        LET i == (j - 1) \div 2 + 1
        IN  IF (j - 1) % 2 = 0 THEN P[i]
            ELSE Mk(P[i + 1].x, P[i].y, P[i].nan \/ P[i + 1].nan)]

\* cbook.pts_to_midstep: (x0,y0), (m01,y0), (m01,y1), (m12,y1), ...,
\* (x_last,y_last): 2n points, m the midpoint of two consecutive x.  The x
\* data of the model are even, so that a midpoint is an integer.
pts_to_midstep(P) ==
    [j \in 1..(2 * Len(P)) |->
        LET i == (j - 1) \div 2 + 1
        IN  IF j = 1 \/ j = 2 * Len(P) THEN P[i]
            ELSE IF (j - 1) % 2 = 1
                 THEN Mk((P[i].x + P[i + 1].x) \div 2, P[i].y,
                         P[i].nan \/ P[i + 1].nan)
                 ELSE Mk((P[i - 1].x + P[i].x) \div 2, P[i].y,
                         P[i - 1].nan \/ P[i].nan)]

drawstyle_conv(drawstyle, P) ==
    CASE drawstyle = "_draw_lines"       -> P
      [] drawstyle = "_draw_steps_pre"   -> pts_to_prestep(P)
      [] drawstyle = "_draw_steps_mid"   -> pts_to_midstep(P)
      [] drawstyle = "_draw_steps_post"  -> pts_to_poststep(P)

drawstyle_index(drawstyle, n_pts, raw_index, fn, fd) ==
    CASE drawstyle = "_draw_lines"       -> lines_index(n_pts, raw_index, fn, fd)
      [] drawstyle = "_draw_steps_pre"   -> pre_index(n_pts, raw_index, fn, fd)
      [] drawstyle = "_draw_steps_mid"   -> mid_index(n_pts, raw_index, fn, fd)
      [] drawstyle = "_draw_steps_post"  -> post_index(n_pts, raw_index, fn, fd)

---------------------------------------------------------------------------
(* compute_pick for Line2D.                                                *)
(*                                                                         *)
(* The host's transform (data -> screen) is p |-> scale * p + shift; the   *)
(* artist's transform and the axes' transData are the same map.  A         *)
(* non-affine transform maps the vertices the same way and only clears     *)
(* is_affine.                                                              *)

transform(a, p) ==
    IF p.nan THEN NaNPt ELSE Pt(a.scale * p.x + a.shift, a.scale * p.y + a.shift)

transform_all(a, P) == [i \in 1..Len(P) |-> transform(a, P[i])]

\* A sequence as a tuple of its values.
Force(s) == s \o <<>>

\* artist_xys of the markers: the data, projected.
marker_xys(a) == Force(transform_all(a, a.xydata))

\* artist_xys of the lines: the data, expanded by the draw style, projected.
line_xys(a) == Force(transform_all(a, drawstyle_conv(a.drawstyle, a.xydata)))

\* ((xy - artist_xys) ** 2).sum(-1)
vertex_d2(p, e) ==
    [n   |-> IF p.nan THEN 0 ELSE Sq(e.x - p.x) + Sq(e.y - p.y),
     d   |-> 1,
     nan |-> p.nan]

vertex_d2s(xys, e) == Force([i \in 1..Len(xys) |-> vertex_d2(xys[i], e)])

\* The "markers are visible" candidate: the closest vertex, its data
\* coordinates, its integer index.
marker_selection(a, d2s, argmin) ==
    Selection(DataTarget(a.xydata[argmin]),
              [n |-> d2s[argmin].n, d |-> 1],
              Int64Index(argmin - 1))

marker_candidate(a, d2s) == marker_selection(a, d2s, nanargmin(d2s))

\* One segment of the polyline, from A to B.  With u = B - A the segment
\* vector and L2 = |u|^2 = ds^2, the code's us = u / ds,
\* dot = clip(vs . us, 0, ds) and projs = A + dot * us are, exactly,
\* dot / ds = m / L2 and projs = A + (m / L2) u with m = clip(vs . u, 0, L2).
\* The record holds the projection (px, py) / L2, the squared distance n / d
\* from it to the event, and m and L2.
projection(A, ux, uy, L2, m, e) ==
    [nan |-> FALSE,
     zero |-> FALSE,
     n   |-> Sq((e.x - A.x) * L2 - m * ux) + Sq((e.y - A.y) * L2 - m * uy),
     d   |-> L2 * L2,
     m   |-> m,
     L2  |-> L2,
     px  |-> A.x * L2 + m * ux,
     py  |-> A.y * L2 + m * uy]

NaNSegment ==
    [nan |-> TRUE, zero |-> FALSE,
     n |-> 0, d |-> 1, m |-> 0, L2 |-> 1, px |-> 0, py |-> 0]

\* A zero-length segment divides 0 by 0 (us /= ds): NaN, and numpy warns
\* (RuntimeWarning: invalid value encountered in divide).
ZeroSegment == [NaNSegment EXCEPT !.zero = TRUE]

project(A, ux, uy, L2, e) ==
    IF L2 = 0 THEN ZeroSegment
    ELSE projection(A, ux, uy, L2,
                    Clip((e.x - A.x) * ux + (e.y - A.y) * uy, 0, L2), e)

segment(A, B, e) ==
    IF A.nan \/ B.nan THEN NaNSegment
    ELSE project(A, B.x - A.x, B.y - A.y, Sq(B.x - A.x) + Sq(B.y - A.y), e)

segments(xys, e) ==
    Force([i \in 1..(Len(xys) - 1) |-> segment(xys[i], xys[i + 1], e)])

\* transData.inverted().transform_point(proj) of the projection (px, py) / L2.
inverse_target(a, s) ==
    [xn  |-> s.px - a.shift * s.L2,
     yn  |-> s.py - a.shift * s.L2,
     den |-> s.L2 * a.scale,
     nan |-> FALSE]

\* The "lines are visible" candidate: the closest clamped projection s, of
\* raw segment argmin - 1; n_pts is len(artist_xys).
line_selection(a, n_pts, argmin, s) ==
    Selection(inverse_target(a, s),
              [n |-> s.n, d |-> s.d],
              IF a.is_affine
              THEN drawstyle_index(a.drawstyle, n_pts, argmin - 1, s.m, s.L2)
              ELSE NoIndex)

line_argmin(a, segs, argmin) ==
    line_selection(a, Len(segs) + 1, argmin, segs[argmin])

line_candidate(a, segs) == line_argmin(a, segs, nanargmin(segs))

marker_visible(a) == a.marker

line_visible(a) == a.linestyle /\ Len(a.xydata) > 1

\* sel.dist < artist.pickradius, on the squared distance.
within_pickradius(s, a) ==
    a.pickradius > 0 /\ s.dist2.n < Sq(a.pickradius) * s.dist2.d

\* min(sels, key=lambda sel: sel.dist, default=None): the first of the least.
min_sel(sels) ==
    IF Len(sels) = 0 THEN None
    ELSE IF Len(sels) = 1 THEN sels[1]
    ELSE IF RatLT(sels[2].dist2, sels[1].dist2) THEN sels[2] ELSE sels[1]

\* return sel if sel and sel.dist < artist.pickradius else None
accept(a, s) ==
    IF s.kind = "Selection" /\ within_pickradius(s, a)
    THEN Returned(s) ELSE Returned(None)

\* us /= ds[:, None] has divided 0 by 0 on some segment.
divides_by_zero(segs) == \E i \in 1..Len(segs) : segs[i].zero

\* The body of compute_pick for Line2D, given the squared distances to the
\* vertices (d2s) and the projections on the segments (segs).  np.nanargmin
\* raises ValueError on an empty or all-NaN array; the "lines are visible"
\* block, when it is reached, warns on a zero-length segment.
pick_Line2D(a, d2s, segs) ==
    IF marker_visible(a) /\ ~HasFinite(d2s) THEN Raised("ValueError")
    ELSE WithWarning(
             IF line_visible(a) /\ ~HasFinite(segs) THEN Raised("ValueError")
             ELSE accept(a, min_sel(
                      (IF marker_visible(a)
                       THEN <<marker_candidate(a, d2s)>> ELSE <<>>)
                      \o (IF line_visible(a)
                          THEN <<line_candidate(a, segs)>> ELSE <<>>))),
             line_visible(a) /\ divides_by_zero(segs))

compute_pick_Line2D(a, e) ==
    pick_Line2D(a, vertex_d2s(marker_xys(a), e), segments(line_xys(a), e))

---------------------------------------------------------------------------
(* move for Line2D.                                                        *)

\* np.floor and np.ceil of target.index: the number's own on an int or a
\* float, the object's floor() and ceil() methods on an Index.
np_floor(idx) ==
    CASE idx.kind = "int"   -> idx.int
      [] idx.kind = "float" -> idx.int + (idx.xn \div idx.den)
      [] idx.kind = "Index" -> floor(idx)

np_ceil(idx) ==
    CASE idx.kind = "int"   -> idx.int
      [] idx.kind = "float" -> idx.int + ((idx.xn + idx.den - 1) \div idx.den)
      [] idx.kind = "Index" -> ceil(idx)

\* A variant of new_idx that takes the ceiling on "right".
new_idx_RightCeil(idx, key) ==
    CASE key = "left"  -> IntIndex(np_ceil(idx) - 1)
      [] key = "right" -> IntIndex(np_ceil(idx))
      [] OTHER         -> idx

\* new_idx: int(np.ceil(index) - 1) on "left", int(np.floor(index) + 1) on
\* "right", the index itself on any other key.
new_idx(idx, key) ==
    CASE key = "left"  -> IntIndex(np_ceil(idx) - 1)
      [] key = "right" -> IntIndex(np_floor(idx) + 1)
      [] OTHER         -> idx

\* artist_xys[new_idx % len(artist_xys)]: an int indexes the array; a float
\* is no valid array index; an Index object has no % operator.  On no data
\* a number of Python's cannot be reduced modulo 0; a numpy scalar reduces,
\* with a RuntimeWarning, to 0 (an integer) or NaN (a double), and neither
\* indexes the empty array.
move_Line2D(a, s, key) ==
    IF s.index.kind = "none" THEN Returned(s)
    ELSE LET idx == new_idx(s.index, key)
             n   == Len(a.xydata)
         IN  CASE idx.kind = "Index" -> Raised("TypeError")
               [] n = 0 /\ ~idx.np  -> Raised("ZeroDivisionError")
               [] n = 0              -> WithWarning(Raised("IndexError"), TRUE)
               [] idx.kind = "float" -> Raised("IndexError")
               [] OTHER ->
                    Returned(Selection(DataTarget(a.xydata[(idx.int % n) + 1]),
                                       [n |-> 0, d |-> 1],
                                       idx))

---------------------------------------------------------------------------
(* compute_pick for PathCollection, and for AxesImage and Patch.           *)

\* The host's containment test, artist.contains(event), answers in the
\* event: e.ind holds the candidate indices info["ind"] (ascending, 0-based)
\* and the event is contained when there is one.
collection_d2s(a, e) ==
    Force([k \in 1..Len(e.ind) |->
              vertex_d2(transform(a, a.offsets[e.ind[k] + 1]), e)])

\* d2.argmin(), then the offset and the index of that candidate.
collection_selection(a, e, d2, argmin) ==
    Selection(DataTarget(a.offsets[e.ind[argmin] + 1]),
              [n |-> d2[argmin].n, d |-> 1],
              Int64Index(e.ind[argmin]))

collection_pick(a, e, d2) == collection_selection(a, e, d2, nanargmin(d2))

\* A variant of compute_pick for PathCollection without the path count test.
compute_pick_PathCollection_AnyPaths(a, e) ==
    IF Len(e.ind) = 0 THEN Returned(None)
    ELSE Returned(collection_pick(a, e, collection_d2s(a, e)))

compute_pick_PathCollection(a, e) ==
    IF Len(e.ind) = 0 THEN Returned(None)
    ELSE IF a.npaths # 1 THEN Warned(None)
    ELSE Returned(collection_pick(a, e, collection_d2s(a, e)))

\* A variant of compute_pick for AxesImage and Patch without the containment
\* test.
compute_pick_Region_Anywhere(a, e) ==
    Returned(Selection(
        [xn |-> e.xdata, yn |-> e.ydata, den |-> 1, nan |-> FALSE],
        [n |-> 0, d |-> 1],
        NoIndex))

\* AxesImage and Patch: e.inside is the answer of artist.contains(event).
compute_pick_Region(a, e) ==
    IF ~e.inside THEN Returned(None)
    ELSE Returned(Selection(
             [xn |-> e.xdata, yn |-> e.ydata, den |-> 1, nan |-> FALSE],
             [n |-> 0, d |-> 1],
             NoIndex))

---------------------------------------------------------------------------
(* move for AxesImage, and the default move.                               *)

\* The step of a key: {"left": [-1, 0], "right": [1, 0], "up": [0, 1],
\* "down": [0, -1]}[key].
key_step ==
    [left |-> <<-1, 0>>, right |-> <<1, 0>>, up |-> <<0, 1>>, down |-> <<0, -1>>]

\* ((target - low) / (high - low) * ns).astype(int), one axis: the target
\* coordinate is tn / den.
cell_index(tn, den, low, high, ns) ==
    Trunc((tn - low * den) * ns, (high - low) * den)

\* A variant of the new target without the + .5: the cell's low edge.
cell_centre_LowEdge(idx, low, high, ns) == 2 * idx * (high - low) + 2 * ns * low

\* (idxs + .5) / ns * (high - low) + low, one axis, as a numerator over 2 ns.
cell_centre(idx, low, high, ns) == (2 * idx + 1) * (high - low) + 2 * ns * low

\* extent is (left, right, bottom, top), so low = (left, bottom) and
\* high = (right, top); ns is the array's shape reversed, (columns, rows).
\* The new target has the common denominator 2 * columns * rows.
image_target(a, ix, iy) ==
    [xn  |-> cell_centre(ix, a.extent[1], a.extent[2], a.shape[2]) * a.shape[1],
     yn  |-> cell_centre(iy, a.extent[3], a.extent[4], a.shape[1]) * a.shape[2],
     den |-> 2 * a.shape[2] * a.shape[1],
     nan |-> FALSE]

image_step(a, s, ix, iy, step) ==
    Returned([s EXCEPT !.target =
                 image_target(a, (ix + step[1]) % a.shape[2],
                                 (iy + step[2]) % a.shape[1])])

move_AxesImage(a, s, key) ==
    IF a.kind # "AxesImage" THEN Returned(s)
    ELSE IF key \notin DOMAIN key_step THEN Raised("KeyError")
    ELSE image_step(a, s,
             cell_index(s.target.xn, s.target.den,
                        a.extent[1], a.extent[2], a.shape[2]),
             cell_index(s.target.yn, s.target.den,
                        a.extent[3], a.extent[4], a.shape[1]),
             key_step[key])

\* The default move returns Selection(*args).
move_default(a, s, key) == Returned(s)

---------------------------------------------------------------------------
(* Artists and pointer events.                                             *)

SeqsUpTo(S, n) == UNION {[1..k -> S] : k \in 0..n}

DrawStyles ==
    {"_draw_lines", "_draw_steps_pre", "_draw_steps_mid", "_draw_steps_post"}

\* Data points of the lines that are picked: the corners of a square, whose
\* sides and diagonals are the segments (even x: see pts_to_midstep), and a
\* NaN point.
GridPoints == {Pt(0, 0), Pt(2, 0), Pt(2, 2), Pt(0, 2), NaNPt}

PickRadii == {0, 1, 2}

SeriesRadii == {1}

\* A Line2D: whether markers and lines are visible (get_marker and
\* get_linestyle not in ["None", "none", " ", "", None]), the draw style, the
\* data, the transform and the pick radius; xmax and ymax bound the axes, in
\* data coordinates from 0.
Line2D(marker, linestyle, drawstyle, xydata, is_affine, pickradius, xmax, ymax) ==
    [kind |-> "Line2D", marker |-> marker, linestyle |-> linestyle,
     drawstyle |-> drawstyle, xydata |-> xydata, is_affine |-> is_affine,
     pickradius |-> pickradius, scale |-> 1, shift |-> 1,
     xmax |-> xmax, ymax |-> ymax]

\* Every segment of the polyline is parallel to a screen axis (or has a NaN
\* end, or no length).
AxisParallel(xys) ==
    \A i \in 1..(Len(xys) - 1) :
        \/ xys[i].nan \/ xys[i + 1].nan
        \/ xys[i].x = xys[i + 1].x
        \/ xys[i].y = xys[i + 1].y

\* The lines on which the code's doubles are exact: those whose lines are
\* not projected on, and those drawn along the axes (a step style always is).
ExactLine(a) == ~line_visible(a) \/ AxisParallel(line_xys(a))

PickLines ==
    {a \in {Line2D(mk, ls, ds, P, af, r, 2, 2) :
                mk \in BOOLEAN, ls \in BOOLEAN, ds \in DrawStyles,
                P \in SeqsUpTo(GridPoints, MaxPts), af \in BOOLEAN,
                r \in PickRadii} :
        ExactLine(a)}

\* The pointer events over the axes of a line: every pixel of the axes.
MouseEvent(x, y) == [kind |-> "MouseEvent", x |-> x, y |-> y]

LineEvents(a) ==
    {MouseEvent(x, y) :
        x \in a.shift .. (a.scale * a.xmax + a.shift),
        y \in a.shift .. (a.scale * a.ymax + a.shift)}

---------------------------------------------------------------------------
(* The operations.  sel is the selection the caller holds: each call's     *)
(* return value replaces it, a call that raises leaves it.  hist records,  *)
(* for each move since the last pick, the key and the selection moved.     *)
(* enc and text hold what the last call returned when it was a call of an  *)
(* encoder of Index, or of get_ann_text.                                   *)

Picked(out, e) ==
    /\ event' = e
    /\ sel' = out.sel
    /\ raised' = out.raised
    /\ warned' = out.warned
    /\ hist' = <<>>
    /\ enc' = NoEnc
    /\ text' = NoText
    /\ UNCHANGED artist

PickLine2D ==
    /\ artist.kind = "Line2D"
    /\ \E e \in LineEvents(artist) : Picked(compute_pick_Line2D(artist, e), e)

InitWith(artists) ==
    /\ artist \in artists
    /\ event = NoEvent
    /\ sel = None
    /\ raised = ""
    /\ warned = FALSE
    /\ hist = <<>>
    /\ enc = NoEnc
    /\ text = NoText

\* Picking on lines of every geometry, degenerate ones included.
InitPick == InitWith(PickLines)

NextPick == PickLine2D

SpecPick == InitPick /\ [][NextPick]_vars

---------------------------------------------------------------------------
(* Moving along a series: n points up a staircase, (0,0), (2,0), (2,2),    *)
(* (4,2), ...: distinct points, every segment along an axis.               *)

Keys == {"left", "right", "up", "down"}

Series(n) == [k \in 1..n |-> Pt(2 * (k \div 2), 2 * ((k - 1) \div 2))]

MoveLines ==
    {Line2D(mk, ls, ds, Series(n), af, r, 2 * (n \div 2), 2 * ((n - 1) \div 2)) :
        mk \in BOOLEAN, ls \in BOOLEAN, ds \in DrawStyles,
        n \in 1..MaxSeries, af \in BOOLEAN, r \in SeriesRadii}

\* One move call: the selection returned replaces the caller's; a call
\* that raises leaves it.
Moved(out, key) ==
    /\ sel' = (IF out.raised = "" THEN out.sel ELSE sel)
    /\ raised' = out.raised
    /\ warned' = out.warned
    /\ hist' = Append(hist, [key |-> key, sel |-> sel])
    /\ enc' = NoEnc
    /\ text' = NoText
    /\ UNCHANGED <<artist, event>>

MoveLine2D ==
    /\ artist.kind = "Line2D"
    /\ sel.kind = "Selection"
    /\ Len(hist) < MaxMoves
    /\ \E key \in Keys : Moved(move_Line2D(artist, sel, key), key)

InitMove == InitWith(MoveLines)

NextMove == PickLine2D \/ MoveLine2D

SpecMove == InitMove /\ [][NextMove]_vars

---------------------------------------------------------------------------
(* Images and patches.  The data unit is half a cell of a default image:   *)
(* imshow's extent (-0.5, columns - 0.5, rows - 0.5, -0.5) is              *)
(* (-1, 2 columns - 1, 2 rows - 1, -1).                                    *)

Extents(rows, cols) ==
    { <<-1, 2 * cols - 1, 2 * rows - 1, -1>>,    \* origin="upper"
      <<-1, 2 * cols - 1, -1, 2 * rows - 1>>,    \* origin="lower"
      <<0, 3, 0, 3>> }                           \* extent=(0, 3, 0, 3)

Image(kind, rows, cols, extent) ==
    [kind |-> kind, shape |-> <<rows, cols>>, extent |-> extent]

Images ==
    UNION {{Image(k, shape[1], shape[2], ext) :
               k \in {"AxesImage", "NonUniformImage"},
               ext \in Extents(shape[1], shape[2])} :
           shape \in (1..MaxRows) \X (1..MaxCols)}

Patches == {[kind |-> "Patch"]}

Min(x, y) == IF x <= y THEN x ELSE y

Max(x, y) == IF x >= y THEN x ELSE y

\* AxesImage.contains: the event's data coordinates lie within the extent,
\* edges included.
image_contains(a, x, y) ==
    /\ Min(a.extent[1], a.extent[2]) <= x /\ x <= Max(a.extent[1], a.extent[2])
    /\ Min(a.extent[3], a.extent[4]) <= y /\ y <= Max(a.extent[3], a.extent[4])

RegionEvent(x, y, inside) ==
    [kind |-> "MouseEvent", xdata |-> x, ydata |-> y, inside |-> inside]

\* The events over an image: the data points of its extent and one unit
\* around it.  Over a patch the host's test may answer either way.
RegionEvents(a) ==
    IF a.kind = "Patch"
    THEN {RegionEvent(x, y, b) : x \in 0..1, y \in 0..1, b \in BOOLEAN}
    ELSE {RegionEvent(x, y, image_contains(a, x, y)) :
             x \in (Min(a.extent[1], a.extent[2]) - 1)
                       .. (Max(a.extent[1], a.extent[2]) + 1),
             y \in (Min(a.extent[3], a.extent[4]) - 1)
                       .. (Max(a.extent[3], a.extent[4]) + 1)}

PickRegion ==
    /\ artist.kind \in {"AxesImage", "NonUniformImage", "Patch"}
    /\ \E e \in RegionEvents(artist) : Picked(compute_pick_Region(artist, e), e)

MoveAxesImage ==
    /\ artist.kind \in {"AxesImage", "NonUniformImage"}
    /\ sel.kind = "Selection"
    /\ Len(hist) < MaxMoves
    /\ \E key \in Keys : Moved(move_AxesImage(artist, sel, key), key)

MoveDefault ==
    /\ artist.kind \in {"Patch", "PathCollection"}
    /\ sel.kind = "Selection"
    /\ Len(hist) < MaxMoves
    /\ \E key \in Keys : Moved(move_default(artist, sel, key), key)

InitImage == InitWith(Images \cup Patches)

NextImage == PickRegion \/ MoveAxesImage \/ MoveDefault

SpecImage == InitImage /\ [][NextImage]_vars

---------------------------------------------------------------------------
(* Scattered-point collections.                                            *)

PathCollection(npaths, offsets) ==
    [kind |-> "PathCollection", npaths |-> npaths, offsets |-> offsets,
     scale |-> 1, shift |-> 1, xmax |-> 2, ymax |-> 2]

\* The offsets of a collection: three corners of the square.
OffsetPoints == {Pt(0, 0), Pt(2, 0), Pt(2, 2)}

Collections ==
    {PathCollection(np, off) :
        np \in 1..MaxPaths,
        off \in SeqsUpTo(OffsetPoints, MaxOffsets) \ {<<>>}}

\* The ascending sequences over 0..n-1: what info["ind"] may hold.
RECURSIVE Ascending(_)
Ascending(n) ==
    IF n = 0 THEN {<<>>}
    ELSE Ascending(n - 1) \cup {Append(s, n - 1) : s \in Ascending(n - 1)}

CollectionEvents(a) ==
    {[kind |-> "MouseEvent", x |-> e.x, y |-> e.y, ind |-> ind] :
        e \in LineEvents(a), ind \in Ascending(Len(a.offsets))}

PickPathCollection ==
    /\ artist.kind = "PathCollection"
    /\ \E e \in CollectionEvents(artist) :
          Picked(compute_pick_PathCollection(artist, e), e)

InitCollection == InitWith(Collections)

NextCollection == PickPathCollection \/ MoveDefault

SpecCollection == InitCollection /\ [][NextCollection]_vars

---------------------------------------------------------------------------
(* The codec on its own: each step encoder called as compute_pick calls    *)
(* it, with the number of points of the expanded series, a raw segment     *)
(* index and an offset f / FracDen.                                        *)

StepSeries ==
    {Line2D(FALSE, TRUE, ds, Series(n), TRUE, r, 2 * (n \div 2), 2 * ((n - 1) \div 2)) :
        ds \in DrawStyles \ {"_draw_lines"}, n \in 2..MaxSeries, r \in SeriesRadii}

Encoded(n_pts, raw, f, idx) ==
    /\ enc' = [kind |-> "Index", n_pts |-> n_pts, raw |-> raw, f |-> f, index |-> idx]
    /\ text' = NoText
    /\ raised' = ""
    /\ warned' = FALSE
    /\ UNCHANGED <<artist, event, sel, hist>>

\* len(artist_xys) of the series: the points of its expansion.
n_expanded(a) == Len(drawstyle_conv(a.drawstyle, a.xydata))

EncodePre ==
    /\ artist.kind = "Line2D"
    /\ artist.drawstyle = "_draw_steps_pre"
    /\ \E raw \in 0..(n_expanded(artist) - 2), f \in 0..FracDen :
          Encoded(n_expanded(artist), raw, f,
                  pre_index(n_expanded(artist), raw, f, FracDen))

EncodeMid ==
    /\ artist.kind = "Line2D"
    /\ artist.drawstyle = "_draw_steps_mid"
    /\ \E raw \in 0..(n_expanded(artist) - 2), f \in 0..FracDen :
          Encoded(n_expanded(artist), raw, f,
                  mid_index(n_expanded(artist), raw, f, FracDen))

EncodePost ==
    /\ artist.kind = "Line2D"
    /\ artist.drawstyle = "_draw_steps_post"
    /\ \E raw \in 0..(n_expanded(artist) - 2), f \in 0..FracDen :
          Encoded(n_expanded(artist), raw, f,
                  post_index(n_expanded(artist), raw, f, FracDen))

InitCodec == InitWith(StepSeries)

NextCodec == EncodePre \/ EncodeMid \/ EncodePost

SpecCodec == InitCodec /\ [][NextCodec]_vars

---------------------------------------------------------------------------
(* Artists compute_pick has no implementation for, and Text.               *)

\* The default compute_pick: warnings.warn("Support for ... is missing."),
\* and None.
compute_pick_default(a, e) == Warned(None)

\* compute_pick for Text: None.
compute_pick_Text(a, e) == Returned(None)

Texts == {[kind |-> "Text"]}

\* An artist of a class that no implementation is registered for.
Unsupported == {[kind |-> "Artist"]}

PlainEvents == {MouseEvent(x, y) : x \in 0..1, y \in 0..1}

PickDefault ==
    /\ artist.kind = "Artist"
    /\ \E e \in PlainEvents : Picked(compute_pick_default(artist, e), e)

PickText ==
    /\ artist.kind = "Text"
    /\ \E e \in PlainEvents : Picked(compute_pick_Text(artist, e), e)

---------------------------------------------------------------------------
(* get_ann_text.  A string is the sequence of its characters.              *)

NL == "\n"

Whitespace == {" ", NL}

\* The first position from i on that holds no space.
RECURSIVE after_spaces(_, _)
after_spaces(str, i) ==
    IF i <= Len(str) /\ str[i] = " " THEN after_spaces(str, i + 1) ELSE i

\* re.sub("[ ,] +", "\n", str), from position i on: a space or a comma
\* followed by one space or more becomes one newline.
RECURSIVE sub_padding(_, _)
sub_padding(str, i) ==
    IF i > Len(str) THEN <<>>
    ELSE IF str[i] \in {" ", ","} /\ i < Len(str) /\ str[i + 1] = " "
         THEN <<NL>> \o sub_padding(str, after_spaces(str, i + 1))
         ELSE <<str[i]>> \o sub_padding(str, i + 1)

\* str.strip()
RECURSIVE lstrip(_)
lstrip(str) ==
    IF str # <<>> /\ Head(str) \in Whitespace THEN lstrip(Tail(str)) ELSE str

RECURSIVE rstrip(_)
rstrip(str) ==
    IF str # <<>> /\ str[Len(str)] \in Whitespace
    THEN rstrip(SubSeq(str, 1, Len(str) - 1)) ELSE str

strip(str) == lstrip(rstrip(str))

\* re.sub("[ ,] +", "\n", ax.format_coord(x, y)).strip(): coord is what the
\* host's format_coord answers.
unpadded(coord) == strip(sub_padding(coord, 1))

\* re.match("[^_]", label): the label has a first character, which is not
\* an underscore.
shown_label(label) == label # <<>> /\ label[1] # "_"

\* get_ann_text for Line2D, PathCollection and Patch.
get_ann_text_point(label, coord) ==
    IF shown_label(label) THEN label \o <<NL>> \o unpadded(coord)
    ELSE unpadded(coord)

\* get_ann_text for AxesImage: cursor is what the host's format_cursor_data
\* answers.
get_ann_text_AxesImage(coord, cursor) ==
    unpadded(coord) \o <<NL, "[">> \o cursor \o <<"]">>

\* The default get_ann_text: warnings.warn("Support for ... is missing"),
\* and "".
get_ann_text_default == <<>>

\* Labels: none, matplotlib's own ("_line0") and the user's.
Labels == {<<>>, <<"_", "l">>, <<"a">>}

\* Answers of format_coord: "x=1 y=2", "x=1   y=2  " and "x=1,  y=2".
Coords ==
    { <<"x", "=", "1", " ", "y", "=", "2">>,
      <<"x", "=", "1", " ", " ", " ", "y", "=", "2", " ", " ">>,
      <<"x", "=", "1", ",", " ", " ", "y", "=", "2">> }

\* Answers of format_cursor_data.
Cursors == {<<"7">>, <<"0", ".", "5">>}

\* One call of get_ann_text: it returns txt, having warned or not.
Annotated(txt, w) ==
    /\ text' = txt
    /\ raised' = ""
    /\ warned' = w
    /\ enc' = NoEnc
    /\ UNCHANGED <<artist, event, sel, hist>>

AnnText ==
    /\ artist.kind \in {"Line2D", "PathCollection", "Patch"}
    /\ sel.kind = "Selection"
    /\ \E label \in Labels, coord \in Coords :
          Annotated(get_ann_text_point(label, coord), FALSE)

AnnTextAxesImage ==
    /\ artist.kind \in {"AxesImage", "NonUniformImage"}
    /\ sel.kind = "Selection"
    /\ \E coord \in Coords, cursor \in Cursors :
          Annotated(get_ann_text_AxesImage(coord, cursor), FALSE)

\* On a Selection, made by the caller, of an artist of any other class.
AnnTextDefault ==
    /\ artist.kind \in {"Text", "Artist"}
    /\ Annotated(get_ann_text_default, TRUE)

\* Annotating what was picked: a patch, a small image, a text, an artist of
\* another class.
InitText ==
    InitWith(Patches \cup Texts \cup Unsupported
             \cup {Image(k, 1, 1, <<-1, 1, 1, -1>>) :
                      k \in {"AxesImage", "NonUniformImage"}})

NextText ==
    \/ PickRegion
    \/ PickDefault
    \/ PickText
    \/ AnnText
    \/ AnnTextAxesImage
    \/ AnnTextDefault

SpecText == InitText /\ [][NextText]_vars

---------------------------------------------------------------------------
(* The whole program: every operation, on artists of every class.  Its      *)
(* lines are the series; lines of every geometry are picked in SpecPick.   *)

Init ==
    InitWith(MoveLines \cup Images \cup Patches \cup Collections
             \cup Texts \cup Unsupported)

Next ==
    \/ PickLine2D
    \/ PickPathCollection
    \/ PickRegion
    \/ PickDefault
    \/ PickText
    \/ MoveLine2D
    \/ MoveAxesImage
    \/ MoveDefault
    \/ EncodePre
    \/ EncodeMid
    \/ EncodePost
    \/ AnnText
    \/ AnnTextAxesImage
    \/ AnnTextDefault

Spec == Init /\ [][Next]_vars

---------------------------------------------------------------------------
(* Vocabulary of the properties.                                           *)

\* The last call was a pick / a move.
AfterPick == event.kind = "MouseEvent" /\ hist = <<>>

AfterMove == Len(hist) >= 1

LastKey == hist[Len(hist)].key

\* The selection the last move was called with.
Before == hist[Len(hist)].sel

NoMatch == sel = None /\ raised = ""

\* The squared distance from the event to the segment from A to B, from
\* the geometry: to A before the segment, to B after it, and to the line
\* through A and B (cross product squared over length squared) in between.
SegmentD2(A, B, e) ==
    LET ux == B.x - A.x
        uy == B.y - A.y
        t  == (e.x - A.x) * ux + (e.y - A.y) * uy
    IN  IF t <= 0 THEN [n |-> Sq(e.x - A.x) + Sq(e.y - A.y), d |-> 1]
        ELSE IF t >= Sq(ux) + Sq(uy)
             THEN [n |-> Sq(e.x - B.x) + Sq(e.y - B.y), d |-> 1]
             ELSE [n |-> Sq(ux * (e.y - A.y) - uy * (e.x - A.x)),
                   d |-> Sq(ux) + Sq(uy)]

\* The distances of the candidates the claim speaks of: to every vertex
\* when markers are drawn, to every segment of positive length when the line
\* is drawn with at least two points.
VertexDistances(a, e) ==
    IF ~a.marker THEN {}
    ELSE {[n |-> Sq(e.x - p.x) + Sq(e.y - p.y), d |-> 1] :
             p \in {transform(a, a.xydata[i]) : i \in 1..Len(a.xydata)} \ {NaNPt}}

DrawnSegments(a) ==
    IF ~a.linestyle \/ Len(a.xydata) < 2 THEN {}
    ELSE LET xys == line_xys(a)
         IN  {i \in 1..(Len(xys) - 1) :
                 ~xys[i].nan /\ ~xys[i + 1].nan /\ xys[i] # xys[i + 1]}

SegmentDistances(a, e) ==
    {SegmentD2(line_xys(a)[i], line_xys(a)[i + 1], e) : i \in DrawnSegments(a)}

Distances(a, e) == VertexDistances(a, e) \cup SegmentDistances(a, e)

IsLeast(d, D) == d \in D /\ \A o \in D : ~RatLT(o, d)

WithinRadius(d, a) == a.pickradius > 0 /\ d.n < Sq(a.pickradius) * d.d

\* sel is one of the candidates: the nearest vertex, in data coordinates
\* and with its integer index, or a point of a drawn segment at that distance.
IsVertexCandidate(a, e, s) ==
    /\ a.marker
    /\ s.index.kind = "int"
    /\ s.index.int \in 0..(Len(a.xydata) - 1)
    /\ s.target = DataTarget(a.xydata[s.index.int + 1])
    /\ ~s.target.nan
    /\ s.dist2 = [n |-> Sq(e.x - transform(a, a.xydata[s.index.int + 1]).x)
                        + Sq(e.y - transform(a, a.xydata[s.index.int + 1]).y),
                  d |-> 1]

IsLineCandidate(a, e, s) ==
    /\ s.index.kind # "int"
    /\ \E d \in SegmentDistances(a, e) : RatEQ(s.dist2, d)

\* Where a pick returns, it returns by the rule of C1: a Selection is a
\* candidate at the least of the distances, which is below the radius; None
\* means no distance is below the radius.
PickRule ==
    (AfterPick /\ raised = "") =>
        /\ sel.kind = "Selection" =>
              /\ \E d \in Distances(artist, event) :
                    /\ RatEQ(sel.dist2, d)
                    /\ \A o \in Distances(artist, event) : ~RatLT(o, d)
              /\ WithinRadius(sel.dist2, artist)
              /\ \/ IsVertexCandidate(artist, event, sel)
                 \/ IsLineCandidate(artist, event, sel)
        /\ sel = None =>
              \A d \in Distances(artist, event) : ~WithinRadius(d, artist)

\* C1 (as claimed): compute_pick on a line returns a Selection only when the
\* smallest candidate distance is strictly below the pick radius, and then
\* the candidate of least distance; in every other case, also when no
\* candidate is produced, it returns no-match.
C1_NearestWithinRadiusElseNoMatch ==
    AfterPick =>
        /\ PickRule
        /\ (\A d \in Distances(artist, event) : ~WithinRadius(d, artist))
              => NoMatch

\* C4 (as claimed): compute_pick on a line never raises on degenerate
\* geometry: with no point, or with no finite candidate distance (all points
\* coincide, all data NaN), the result is no-match.
C4_DegenerateIsNoMatch ==
    AfterPick =>
        /\ raised = ""
        /\ Distances(artist, event) = {} => NoMatch

---------------------------------------------------------------------------
(* C6: picking exactly on a direct-style line.                             *)

\* The event is on the segment from A to B, which has positive length.
OnSegment(A, B, e) ==
    /\ A # B
    /\ (B.x - A.x) * (e.y - A.y) = (B.y - A.y) * (e.x - A.x)
    /\ (e.x - A.x) * (B.x - A.x) + (e.y - A.y) * (B.y - A.y) >= 0
    /\ (e.x - A.x) * (B.x - A.x) + (e.y - A.y) * (B.y - A.y)
          <= Sq(B.x - A.x) + Sq(B.y - A.y)

\* Its offset along the segment is OffsetNum / OffsetDen.
OffsetNum(A, B, e) == (e.x - A.x) * (B.x - A.x) + (e.y - A.y) * (B.y - A.y)

OffsetDen(A, B) == Sq(B.x - A.x) + Sq(B.y - A.y)

\* The index is the number k + tn / td.
IndexEquals(idx, k, tn, td) ==
    /\ idx.kind \in {"int", "float"}
    /\ (idx.int * idx.den + idx.xn) * td = (k * td + tn) * idx.den

\* The drawn segments through the event, and the vertices under it (1-based).
SegmentsThrough(a, e) ==
    {k \in DrawnSegments(a) : OnSegment(line_xys(a)[k], line_xys(a)[k + 1], e)}

VerticesUnder(a, e) ==
    {i \in 1..Len(a.xydata) :
        ~a.xydata[i].nan /\ transform(a, a.xydata[i]) = Pt(e.x, e.y)}

Least(S) == CHOOSE i \in S : \A j \in S : i <= j

ExactHit == sel.kind = "Selection" /\ sel.dist2.n = 0

DirectPick ==
    AfterPick /\ artist.drawstyle = "_draw_lines" /\ artist.pickradius > 0

\* C6 (as claimed): an event exactly at offset t along segment k of a
\* direct-style line with a positive pick radius yields distance 0 and index
\* k + t; in particular an event exactly on vertex k (an end of a drawn
\* segment, or a marker of a line whose lines are not drawn) yields index k.
C6_IndexIsSegmentPlusOffset ==
    DirectPick =>
        /\ \A k \in SegmentsThrough(artist, event) :
              /\ ExactHit
              /\ IndexEquals(sel.index, k - 1,
                    OffsetNum(line_xys(artist)[k], line_xys(artist)[k + 1], event),
                    OffsetDen(line_xys(artist)[k], line_xys(artist)[k + 1]))
        /\ \A i \in VerticesUnder(artist, event) :
              (\/ artist.marker /\ ~line_visible(artist)
               \/ \E k \in SegmentsThrough(artist, event) : i \in {k, k + 1})
                  => ExactHit /\ IndexEquals(sel.index, i - 1, 0, 1)

\* C6 (amended): an event exactly on a drawn segment (finite, of positive
\* length) of a direct-style line with a positive pick radius yields distance
\* 0 and, when the transform is affine, the index j + s of the FIRST segment j
\* through the event, s the offset along it; when it is not affine the
\* Selection carries no index.  With markers drawn, an event exactly on a
\* vertex (of a drawn segment, or of a line whose lines are not drawn) yields
\* distance 0 and the integer index of the first vertex under the event.
C6_IndexIsFirstThroughEvent ==
    DirectPick =>
        IF /\ artist.marker
           /\ VerticesUnder(artist, event) # {}
           /\ ~line_visible(artist) \/ SegmentsThrough(artist, event) # {}
        THEN /\ ExactHit
             /\ sel.index = Int64Index(Least(VerticesUnder(artist, event)) - 1)
        ELSE SegmentsThrough(artist, event) # {} =>
                /\ ExactHit
                /\ IF artist.is_affine
                   THEN LET j == Least(SegmentsThrough(artist, event))
                        IN  IndexEquals(sel.index, j - 1,
                               OffsetNum(line_xys(artist)[j],
                                         line_xys(artist)[j + 1], event),
                               OffsetDen(line_xys(artist)[j],
                                         line_xys(artist)[j + 1]))
                   ELSE sel.index.kind = "none"

\* The midpoint of a two-point line picked at index 0.5, distance 0.
C6_Witness ==
    /\ DirectPick
    /\ artist.xydata = <<Pt(0, 0), Pt(2, 0)>>
    /\ ~artist.marker
    /\ event.x = 2 /\ event.y = 1
    /\ ExactHit
    /\ IndexEquals(sel.index, 0, 1, 2)

---------------------------------------------------------------------------
(* C2, C9, C10: moving along a line.                                       *)

Count(key) == Cardinality({i \in 1..Len(hist) : hist[i].key = key})

\* The selection the moves started from (the pick's).
Origin == hist[1].sel

\* The target t is the data point p.
TargetIs(t, p) ==
    /\ ~t.nan /\ ~p.nan
    /\ t.xn = p.x * t.den
    /\ t.yn = p.y * t.den

\* The Selection s carries an index and sits exactly on vertex k (0-based):
\* its target is the vertex and its distance is 0.
SitsOnVertex(s, k) ==
    /\ s.index.kind # "none"
    /\ s.dist2.n = 0
    /\ TargetIs(s.target, artist.xydata[k + 1])

\* An index of whole value: an integer, a float without fractional part, an
\* Index with both offsets 0; and its value.
WholeIndex(idx) ==
    \/ idx.kind = "int"
    \/ idx.kind = "float" /\ idx.xn % idx.den = 0
    \/ idx.kind = "Index" /\ idx.xn = 0 /\ idx.yn = 0

Vertex(idx) ==
    IF idx.kind = "float" THEN idx.int + idx.xn \div idx.den ELSE idx.int

LeftRightOnly == \A i \in 1..Len(hist) : hist[i].key \in {"left", "right"}

\* Vertex (k + #right - #left) mod n of the line, as a target.
Walked(k) ==
    DataTarget(artist.xydata[
        ((k + Count("right") - Count("left")) % Len(artist.xydata)) + 1])

\* C2 (as claimed): from a Selection sitting exactly on vertex k of a line
\* of n points, after any sequence of "left" and "right" moves the target is
\* the data point of vertex (k + #right - #left) mod n and the distance is 0.
C2_LeftRightWalksTheVertices ==
    (AfterMove /\ LeftRightOnly) =>
        \A k \in 0..(Len(artist.xydata) - 1) :
            SitsOnVertex(Origin, k) =>
                /\ raised = ""
                /\ sel.kind = "Selection"
                /\ sel.dist2.n = 0
                /\ sel.target = Walked(k)

\* C2 (amended): from a Selection whose index has the whole value k, after
\* any sequence of "left" and "right" moves the target is the data point of
\* vertex (k + #right - #left) mod n and the distance is 0.
C2_WholeIndexWalksTheVertices ==
    (AfterMove /\ LeftRightOnly /\ WholeIndex(Origin.index)) =>
        /\ raised = ""
        /\ sel.kind = "Selection"
        /\ sel.dist2.n = 0
        /\ sel.target = Walked(Vertex(Origin.index))

\* From a pick exactly on the last vertex, "right" has wrapped to vertex 0.
C2_Witness ==
    /\ Len(hist) = 1
    /\ LastKey = "right"
    /\ WholeIndex(Origin.index)
    /\ Len(artist.xydata) = MaxSeries
    /\ Vertex(Origin.index) = MaxSeries - 1
    /\ SitsOnVertex(Origin, MaxSeries - 1)
    /\ sel.target = DataTarget(artist.xydata[1])
    /\ sel.dist2.n = 0

\* A pick exactly on vertex 1 of a steps-pre line of 3 points carries
\* Index(0, 1, 1); "right" returns vertex 1 again.
C2_StepPickOnVertex ==
    /\ Len(hist) = 1
    /\ LastKey = "right"
    /\ artist.drawstyle = "_draw_steps_pre"
    /\ Len(artist.xydata) = 3
    /\ SitsOnVertex(Origin, 1)
    /\ Origin.index.kind = "Index"
    /\ Origin.index.int = 0
    /\ Origin.index.xn = Origin.index.den
    /\ Origin.index.yn = Origin.index.den
    /\ sel.target = DataTarget(artist.xydata[2])

\* C9 (as claimed): a move with a key other than "left" and "right" on a
\* line Selection that carries an index returns, without raising, a
\* Selection with the same index and distance 0.
C9_OtherKeyKeepsIndex ==
    (AfterMove /\ LastKey \notin {"left", "right"} /\ Before.index.kind # "none") =>
        /\ raised = ""
        /\ sel.kind = "Selection"
        /\ sel.index = Before.index
        /\ sel.dist2.n = 0

\* C10 (as claimed): after "left" and "right" moves the index the Selection
\* carries lies in 0..n-1 and names the vertex whose coordinates the target
\* holds.
C10_IndexIsWrapped ==
    (AfterMove /\ LeftRightOnly) =>
        /\ sel.index.kind = "int"
        /\ sel.index.int \in 0..(Len(artist.xydata) - 1)
        /\ sel.target = DataTarget(artist.xydata[sel.index.int + 1])

---------------------------------------------------------------------------
(* C3: moving over an image.                                               *)

\* The target t lies in column c (row r): between the edges of the cell,
\* the edge nearer to low included.
InCell(tn, den, low, high, ns, c) ==
    IF high > low
    THEN /\ c * (high - low) * den <= (tn - low * den) * ns
         /\ (tn - low * den) * ns < (c + 1) * (high - low) * den
    ELSE /\ c * (high - low) * den >= (tn - low * den) * ns
         /\ (tn - low * den) * ns > (c + 1) * (high - low) * den

InColumn(a, t, c) == InCell(t.xn, t.den, a.extent[1], a.extent[2], a.shape[2], c)

InRow(a, t, r) == InCell(t.yn, t.den, a.extent[3], a.extent[4], a.shape[1], r)

\* The target t is the centre of the cell: low + (c + 1/2) (high - low) / ns.
AtCentre(tn, den, low, high, ns, c) ==
    2 * ns * (tn - low * den) = (2 * c + 1) * (high - low) * den

CentreOf(a, t, c, r) ==
    /\ AtCentre(t.xn, t.den, a.extent[1], a.extent[2], a.shape[2], c)
    /\ AtCentre(t.yn, t.den, a.extent[3], a.extent[4], a.shape[1], r)

---------------------------------------------------------------------------
(* C7: picking a filled region.                                            *)

\* C7: compute_pick on an image or a patch returns a Selection at distance
\* 0 whose target is the event's data coordinates when the containment test
\* says inside, and no-match when it says outside.
C7_InsideIsExactHit ==
    (AfterPick /\ artist.kind \in {"AxesImage", "NonUniformImage", "Patch"}) =>
        /\ raised = ""
        /\ event.inside =>
              /\ ExactHit
              /\ sel.dist2.d = 1
              /\ sel.target.xn = event.xdata * sel.target.den
              /\ sel.target.yn = event.ydata * sel.target.den
        /\ ~event.inside => sel = None

C7_Witness ==
    /\ AfterPick
    /\ artist.kind = "Patch"
    /\ event.inside
    /\ event.xdata = 1 /\ event.ydata = 0
    /\ ExactHit
    /\ sel.target.xn = sel.target.den /\ sel.target.yn = 0

---------------------------------------------------------------------------
(* C5: picking a collection of several paths.                              *)

MultiPathPick == AfterPick /\ artist.kind = "PathCollection" /\ artist.npaths > 1

\* C5 (as claimed): compute_pick on a collection with more than one path
\* returns no-match and emits a diagnostic for every event, contained or not.
C5_MultiPathAlwaysWarns == MultiPathPick => NoMatch /\ warned

\* C5 (amended): it returns no-match for every event, and emits the
\* diagnostic exactly when the containment test reports a hit.
C5_MultiPathWarnsWhenHit ==
    MultiPathPick => NoMatch /\ (warned <=> Len(event.ind) > 0)

C5_Witness == MultiPathPick /\ Len(event.ind) > 0 /\ NoMatch /\ warned

---------------------------------------------------------------------------
(* C8: the step-mid encoder.                                               *)

\* C8: for a step-mid series of n >= 2 points, encoded with the 2 n points
\* of its expansion, every raw segment 0..2n-2 and every offset in [0, 1]
\* gives 0 <= floor <= ceil <= n - 1; raw segment 0 has floor 0 and the last
\* raw segment has ceil n - 1.
C8_MidIndexInRange ==
    (enc.kind = "Index" /\ artist.drawstyle = "_draw_steps_mid") =>
        /\ enc.n_pts = 2 * Len(artist.xydata)
        /\ 0 <= floor(enc.index)
        /\ floor(enc.index) <= ceil(enc.index)
        /\ ceil(enc.index) <= Len(artist.xydata) - 1
        /\ enc.raw = 0 => floor(enc.index) = 0
        /\ enc.raw = 2 * Len(artist.xydata) - 2
              => ceil(enc.index) = Len(artist.xydata) - 1

\* The first half of raw segment 0 and the last half of the last segment.
C8_Witness ==
    /\ enc.kind = "Index"
    /\ artist.drawstyle = "_draw_steps_mid"
    /\ Len(artist.xydata) = MaxSeries
    /\ enc.raw = 2 * MaxSeries - 2
    /\ 0 < enc.f /\ enc.f < FracDen
    /\ floor(enc.index) = MaxSeries - 2
    /\ ceil(enc.index) = MaxSeries - 1

=============================================================================
